---- MODULE Spec2Model ----
(***************************************************************************)
(* Coordination core of the chat front end:                                *)
(*   - the Stream Coordinator (hooks/useChat.ts), in its two drafts: the   *)
(*     React hook with an AbortController ref, and the RxJS ChatService;   *)
(*   - the ChatHistoryService of hooks/useChatWithHistory.ts (persistence  *)
(*     and title generation), with the conversation backend as an opaque   *)
(*     fallible request/response service.                                  *)
(* Text is a sequence of one-character strings.                            *)
(***************************************************************************)
EXTENDS Integers, Sequences, FiniteSets, TLC

\* ------------------------------------------------------------------ bounds
MaxSessions == 3
\* longest run of spaces before and after a text given to a title function
MaxPad == 1
\* longest content given to extractTitle, spaces not counted
MaxWord == 32
\* longest answer of the title model, spaces not counted
MaxRaw == 52
\* calls of ConversationService started in one run
MaxApiOps == 3
\* callbacks registered with subscribe
MaxSubs == 2
\* longest partial text of a session, in characters
MaxText == 2

\* --------------------------------------------------------------- constants
InterruptedMarker ==
    <<" ", "[", "R", "e", "s", "p", "o", "n", "s", "e", " ", "i", "n", "t", "e", "r", "r", "u", "p", "t", "e", "d", "]">>

NoResponseText ==
    <<"S", "o", "r", "r", "y", ",", " ", "I", " ", "c", "o", "u", "l", "d", "n", "'", "t", " ", "g", "e", "n", "e", "r", "a", "t", "e", " ", "a", " ", "r", "e", "s", "p", "o", "n", "s", "e", ".">>

ErrorFallbackText ==
    <<"S", "o", "r", "r", "y", ",", " ", "t", "h", "e", "r", "e", " ", "w", "a", "s", " ", "a", "n", " ", "e", "r", "r", "o", "r", " ", "p", "r", "o", "c", "e", "s", "s", "i", "n", "g", " ", "y", "o", "u", "r", " ", "r", "e", "q", "u", "e", "s", "t", ".", " ", "P", "l", "e", "a", "s", "e", " ", "t", "r", "y", " ", "a", "g", "a", "i", "n", " ", "l", "a", "t", "e", "r", ".">>

EmptyText == << >>

\* The content deltas a provider chunk can carry (the empty delta included).
ChunkContents == { <<"H">>, EmptyText }

\* The two drafts of the Stream Coordinator kept in hooks/useChat.ts.
Drafts == {"hook", "service"}

\* The AbortController slot holds a session number, or NoController (null).
NoController == 0

VARIABLES
    draft,                    \* which draft of useChat.ts is running
    isLoading,                \* loading flag
    currentStreamingMessage,  \* accumulated partial text shown to the UI
    abortController,          \* controller of the session the slot points at
    aborted,                  \* controllers whose abort() has been called
    sessions,                 \* per send: position, fullContent, result, chunks
    nextSession,              \* number of the next session to create
    chatOp,                   \* the Stream Coordinator operation that ran last
    chatReturn,               \* value returned by cancelStream in the last step
    resolved                  \* the sends settled in the last step, with their values

chatVars == <<draft, isLoading, currentStreamingMessage, abortController,
              aborted, sessions, nextSession, chatOp, chatReturn, resolved>>

\* ------------------------------------------------ ChatHistoryService state
VARIABLES
    messages,             \* state.messages
    conversationId,       \* state.conversationId (NoId = null)
    title,                \* state.title
    savingStates,         \* state.savingStates, the in-flight operation tags
    isSaving,             \* state.isSaving
    pendingSave,          \* private pendingSave
    titleGenerated,       \* private titleGenerated
    awaitingTitleUpdate,  \* private awaitingTitleUpdate
    timer,                \* the debounce slot of debouncedSave
    creates,              \* create calls in flight
    updates,              \* update calls in flight
    loads,                \* getConversation calls in flight
    titleGens,            \* title-generation calls in flight
    server,               \* the backend's records, by identifier
    serverCount,          \* number of identifiers the backend has assigned
    lastSched,            \* arguments of the most recent debouncedSave call
    burst,                \* debouncedSave calls coalesced in the armed timer
    unsent,               \* a scheduled payload has not been sent so far
    pristine,             \* first exchange only, nothing failed, no other user action
    autoTitled,           \* automatic title-bearing updates sent, by identifier
    userOps,              \* user operations so far
    epoch,                \* conversations replaced so far (resets and loads)
    titleStarts,          \* title generations started since the last reset
    failures,             \* kinds of call that have failed since the last reset
    rejected              \* the call the last step refused without effect, if any

\* ---------------------------------------------- subscriptions and input
VARIABLES
    input,                \* state.input
    listeners,            \* per key, the callbacks registered by subscribe
    calls,                \* per callback: times invoked, last value received
    nextSub,              \* number of the next callback to be registered
    unsubscribed          \* callbacks whose unsubscribe handle has been called

subVars == <<listeners, calls, nextSub, unsubscribed>>

\* ------------------------------------------------------ title functions
VARIABLES
    titleArg,             \* content and raw answer a title function is applied to
    titleResult           \* what it returned

fnVars == <<titleArg, titleResult>>

\* ------------------------------ ConversationStore and ConversationService
VARIABLES
    conversations,        \* ConversationStore.conversations
    storeIsLoading,       \* ConversationStore.isLoading
    initialized,          \* ConversationStore.initialized
    apiCalls,             \* HTTP calls of ConversationService in flight
    backend,              \* the conversations the backend holds
    backendCount,         \* identifiers the backend has given out
    delivered,            \* what the last completed call gave its caller
    apiOps                \* calls started so far

storeVars == <<conversations, storeIsLoading, initialized, apiCalls, backend,
               backendCount, delivered, apiOps>>

envVars == <<fnVars, storeVars>>

histVars == <<input, subVars,
              messages, conversationId, title, savingStates, isSaving,
              pendingSave, titleGenerated, awaitingTitleUpdate, timer,
              creates, updates, loads, titleGens, server, serverCount,
              lastSched, burst, unsent, pristine, autoTitled, userOps, epoch,
              titleStarts, failures, rejected>>

vars == <<chatVars, histVars, envVars>>

SessionIds == 1..MaxSessions

\* A session that has been created and has neither ended nor been aborted:
\* the provider may still deliver tokens for it.
Live(s) ==
    /\ sessions[s].pc \in {"requesting", "streaming"}
    /\ s \notin aborted

\* A session whose async function / observable has not finished yet.
Running(s) == sessions[s].pc \in {"requesting", "streaming"}

\* fullContent is the local of the stream loop; result is the local of the
\* subscriber that the service draft's wrapper resolves with.
FreshSession == [pc |-> "none", fullContent |-> EmptyText, result |-> EmptyText]

\* A finished send: its locals and its controller are no longer reachable.
DoneSession == [pc |-> "done", fullContent |-> EmptyText, result |-> EmptyText]

\* The send of session s settles as `how` with the value v.
Resolution(s, how, v) == [session |-> s, how |-> how, value |-> v]

InitChat ==
    /\ draft \in Drafts
    /\ isLoading = FALSE
    /\ currentStreamingMessage = EmptyText
    /\ abortController = NoController
    /\ aborted = {}
    /\ sessions = [s \in SessionIds |-> FreshSession]
    /\ nextSession = 1
    /\ chatOp = "init"
    /\ chatReturn = EmptyText
    /\ resolved = {}

\* abortController.abort() on the controller in the slot, when there is one.
AbortSlot(slot, ab) == IF slot # NoController THEN ab \cup {slot} ELSE ab

\* The cleanup shared by the hook's finally block and the service's finalize.
Cleanup ==
    /\ isLoading' = FALSE
    /\ currentStreamingMessage' = EmptyText
    /\ abortController' = NoController

\* sendMessage on the coordinator's own state
SendMessageBody ==
    /\ chatOp' = "sendMessage"
    /\ chatReturn' = EmptyText
    /\ IF isLoading
         THEN /\ resolved' = {Resolution(0, "refused", EmptyText)}
              /\ UNCHANGED <<draft, isLoading, currentStreamingMessage,
                             abortController, aborted, sessions, nextSession>>
         ELSE /\ nextSession <= MaxSessions
              /\ isLoading' = TRUE
              /\ currentStreamingMessage' = EmptyText
              /\ aborted' = AbortSlot(abortController, aborted)
              /\ abortController' = nextSession
              /\ sessions' = [sessions EXCEPT ![nextSession].pc = "requesting"]
              /\ nextSession' = nextSession + 1
              /\ resolved' = {}
              /\ UNCHANGED draft

\* sendMessage without the isLoading check
SendMessage_IgnoresLoading ==
    /\ chatOp' = "sendMessage"
    /\ chatReturn' = EmptyText
    /\ nextSession <= MaxSessions
    /\ isLoading' = TRUE
    /\ currentStreamingMessage' = EmptyText
    /\ aborted' = AbortSlot(abortController, aborted)
    /\ abortController' = nextSession
    /\ sessions' = [sessions EXCEPT ![nextSession].pc = "requesting"]
    /\ nextSession' = nextSession + 1
    /\ resolved' = {}
    /\ UNCHANGED draft
    /\ UNCHANGED <<histVars, envVars>>

\* sendMessage, up to the first suspension (the provider request is issued).
SendMessage ==
    /\ SendMessageBody
    /\ UNCHANGED <<histVars, envVars>>

\* The provider answers the request: the token stream is open.
StreamOpen(s) ==
    /\ Live(s)
    /\ sessions[s].pc = "requesting"
    /\ sessions' = [sessions EXCEPT ![s].pc = "streaming"]
    /\ chatOp' = "streamOpen"
    /\ chatReturn' = EmptyText
    /\ resolved' = {}
    /\ UNCHANGED <<draft, isLoading, currentStreamingMessage, abortController,
                   aborted, nextSession>>
    /\ UNCHANGED <<histVars, envVars>>

\* One chunk of the stream arrives.
StreamChunk(s, content) ==
    /\ Live(s)
    /\ sessions[s].pc = "streaming"
    /\ Len(sessions[s].fullContent \o content) <= MaxText
    /\ LET full == sessions[s].fullContent \o content
       IN  /\ currentStreamingMessage' = full
           /\ sessions' = [sessions EXCEPT
                 ![s].fullContent = full,
                 \* service draft: observer.next(fullContent) only for a
                 \* non-empty delta; the wrapper keeps the last value
                 ![s].result = IF draft = "service" /\ content # EmptyText
                                 THEN full ELSE @]
    /\ chatOp' = "streamChunk"
    /\ chatReturn' = EmptyText
    /\ resolved' = {}
    /\ UNCHANGED <<draft, isLoading, abortController, aborted, nextSession>>
    /\ UNCHANGED <<histVars, envVars>>

\* The stream ends normally: the send resolves and cleans up.
StreamEnd(s) ==
    /\ Live(s)
    /\ sessions[s].pc = "streaming"
    /\ LET final == IF sessions[s].fullContent # EmptyText
                      THEN sessions[s].fullContent ELSE NoResponseText
       IN  resolved' = {Resolution(s, "completed", final)}
    /\ sessions' = [sessions EXCEPT ![s] = DoneSession]
    /\ Cleanup
    /\ chatOp' = "streamEnd"
    /\ chatReturn' = EmptyText
    /\ UNCHANGED <<draft, aborted, nextSession>>
    /\ UNCHANGED <<histVars, envVars>>

\* the failure path resolving with the fallback but skipping the finally block
StreamError_NoCleanup(s) ==
    /\ Live(s)
    /\ resolved' = {Resolution(s, "failed", ErrorFallbackText)}
    /\ sessions' = [sessions EXCEPT ![s] = DoneSession]
    /\ UNCHANGED <<isLoading, currentStreamingMessage, abortController>>
    /\ chatOp' = "streamError"
    /\ chatReturn' = EmptyText
    /\ UNCHANGED <<draft, aborted, nextSession>>
    /\ UNCHANGED <<histVars, envVars>>

\* The request or the stream fails with an error that is not an abort.
StreamError(s) ==
    /\ Live(s)
    /\ resolved' = {Resolution(s, "failed", ErrorFallbackText)}
    /\ sessions' = [sessions EXCEPT ![s] = DoneSession]
    /\ Cleanup
    /\ chatOp' = "streamError"
    /\ chatReturn' = EmptyText
    /\ UNCHANGED <<draft, aborted, nextSession>>
    /\ UNCHANGED <<histVars, envVars>>

\* A running session observes that its controller was aborted (AbortError).
AbortObserved(s) ==
    /\ Running(s)
    /\ s \in aborted
    \* hook: catch returns ''; service: processStream completes the observer
    \* (the last emitted value stays), a rejected request goes through
    \* catchError to of('')
    /\ resolved' = {Resolution(s, "cancelled",
                      IF draft = "hook" \/ sessions[s].pc = "requesting"
                        THEN EmptyText ELSE sessions[s].result)}
    /\ sessions' = [sessions EXCEPT ![s] = DoneSession]
    /\ aborted' = aborted \ {s}
    /\ Cleanup
    /\ chatOp' = "abortObserved"
    /\ chatReturn' = EmptyText
    /\ UNCHANGED <<draft, nextSession>>
    /\ UNCHANGED <<histVars, envVars>>

\* cancelStream on the coordinator's own state
CancelStreamBody ==
    /\ chatOp' = "cancelStream"
    /\ IF abortController # NoController
         THEN /\ abortController' = NoController
              /\ isLoading' = FALSE
              /\ chatReturn' = currentStreamingMessage \o InterruptedMarker
              /\ currentStreamingMessage' = EmptyText
              \* service draft: cancelRequest$.next() completes every
              \* subscribed send through takeUntil, in the same step
              /\ IF draft = "service"
                   THEN /\ sessions' = [s \in SessionIds |->
                               IF Running(s) THEN DoneSession ELSE sessions[s]]
                        /\ resolved' = {Resolution(s, "cancelled", sessions[s].result) :
                                           s \in {r \in SessionIds : Running(r)}}
                        /\ aborted' = {r \in aborted : ~Running(r)}
                   ELSE /\ aborted' = aborted \cup {abortController}
                        /\ resolved' = {}
                        /\ UNCHANGED sessions
              /\ UNCHANGED <<draft, nextSession>>
         ELSE /\ chatReturn' = EmptyText
              /\ resolved' = {}
              /\ UNCHANGED <<draft, isLoading, currentStreamingMessage,
                             abortController, aborted, sessions, nextSession>>

\* cancelStream without setCurrentStreamingMessage('')
CancelStream_KeepsPartial ==
    /\ chatOp' = "cancelStream"
    /\ IF abortController # NoController
         THEN /\ abortController' = NoController
              /\ isLoading' = FALSE
              /\ chatReturn' = currentStreamingMessage \o InterruptedMarker
              /\ UNCHANGED currentStreamingMessage
              \* service draft: cancelRequest$.next() completes every
              \* subscribed send through takeUntil, in the same step
              /\ IF draft = "service"
                   THEN /\ sessions' = [s \in SessionIds |->
                               IF Running(s) THEN DoneSession ELSE sessions[s]]
                        /\ resolved' = {Resolution(s, "cancelled", sessions[s].result) :
                                           s \in {r \in SessionIds : Running(r)}}
                        /\ aborted' = {r \in aborted : ~Running(r)}
                   ELSE /\ aborted' = aborted \cup {abortController}
                        /\ resolved' = {}
                        /\ UNCHANGED sessions
              /\ UNCHANGED <<draft, nextSession>>
         ELSE /\ chatReturn' = EmptyText
              /\ resolved' = {}
              /\ UNCHANGED <<draft, isLoading, currentStreamingMessage,
                             abortController, aborted, sessions, nextSession>>
    /\ UNCHANGED <<histVars, envVars>>

\* cancelStream.
CancelStream ==
    /\ CancelStreamBody
    /\ UNCHANGED <<histVars, envVars>>

\* ===================================================== ChatHistoryService
\* ------------------------------------------------------------------ bounds
\* user operations (add a message, save, select or reset) in one run
MaxUserOps == 4
MaxConvs == 2
MaxInFlight == 2
MaxBurst == 3

\* --------------------------------------------------------------- constants
NewConversationTitle ==
    <<"N", "e", "w", " ", "C", "o", "n", "v", "e", "r", "s", "a", "t", "i", "o", "n">>

PlaceholderTitle ==
    <<"U", "n", "t", "i", "t", "l", "e", "d", " ", "C", "o", "n", "v", "e", "r", "s", "a", "t", "i", "o", "n">>

Ellipsis == <<".", ".", ".">>

\* debounce(..., 300)
DebounceWait == 300
\* granularity of the clock of the model
TickStep == 150

ExtractLen == 30
ContentPrefixLen == 100
TitleMaxLen == 50
TitleCutLen == 47

NoId == 0
ConvIds == 1..MaxConvs

RoleUser == <<"u", "s", "e", "r">>
RoleAssistant == <<"a", "s", "s", "i", "s", "t", "a", "n", "t">>

\* What the user can type and what a finished (or interrupted) turn can hold.
UserContents == { <<"h", "i">>, <<" ">> }
AssistantContents == { <<"o", "k">>, EmptyText }
\* Raw answers of the title model, and the titles a user can give explicitly.
RawTitles == { <<"T">> }
ExplicitTitles == { <<"M", "y">> }

\* ---------------------------------------------------------- pure functions
Take(s, n) == SubSeq(s, 1, IF Len(s) < n THEN Len(s) ELSE n)

IsSpace(c) == c \in {" ", "\t", "\n", "\r"}

RECURSIVE TrimStart(_)
TrimStart(s) == IF s # << >> /\ IsSpace(Head(s)) THEN TrimStart(Tail(s)) ELSE s

RECURSIVE TrimEnd(_)
TrimEnd(s) ==
    IF s # << >> /\ IsSpace(s[Len(s)]) THEN TrimEnd(SubSeq(s, 1, Len(s) - 1)) ELSE s

\* String.prototype.trim
Trim(s) == TrimEnd(TrimStart(s))

\* ChatHistoryService.extractTitle / extractSimpleTitle
extractTitle(content) ==
    LET truncated == Trim(Take(content, ExtractLen))
    IN  IF Len(truncated) > 0
          THEN truncated \o (IF Len(truncated) >= ExtractLen THEN Ellipsis ELSE EmptyText)
          ELSE NewConversationTitle

\* JSON.stringify of a string's characters (quote and backslash are escaped)
RECURSIVE JsonEscape(_)
JsonEscape(s) ==
    IF s = << >> THEN << >>
    ELSE (IF Head(s) \in {"\"", "\\"} THEN <<"\\", Head(s)>> ELSE <<Head(s)>>)
         \o JsonEscape(Tail(s))

JsonMessage(m) ==
    <<"{", "\"", "r", "o", "l", "e", "\"", ":", "\"">> \o m.role
    \o <<"\"", ",", "\"", "c", "o", "n", "t", "e", "n", "t", "\"", ":", "\"">>
    \o JsonEscape(m.content) \o <<"\"", "}">>

RECURSIVE JsonItems(_)
JsonItems(ms) ==
    IF ms = << >> THEN << >>
    ELSE IF Len(ms) = 1 THEN JsonMessage(ms[1])
    ELSE JsonMessage(ms[1]) \o <<",">> \o JsonItems(Tail(ms))

\* JSON.stringify(messages)
JsonStringify(ms) == <<"[">> \o JsonItems(ms) \o <<"]">>

\* titleGenerationService.generateTitle: the answer of the title model is
\* trimmed and cut; any error falls back to extractSimpleTitle(content).
\* raw = << "error" >> stands for a failed request.
TitleRequestFailed == <<"error">>
TitleOutcomes == RawTitles \cup {TitleRequestFailed}

\* generateTitle cutting a long answer at 50 characters before the ellipsis
generateTitleResult_CutsAtMax(content, raw) ==
    IF raw = TitleRequestFailed THEN extractTitle(content)
    ELSE LET t == Trim(raw)
         IN  IF Len(t) > TitleMaxLen THEN Take(t, TitleMaxLen) \o Ellipsis
             ELSE IF t # EmptyText THEN t ELSE NewConversationTitle

\* generateTitle, from the answer of the title model to the title returned
generateTitleResult(content, raw) ==
    IF raw = TitleRequestFailed THEN extractTitle(content)
    ELSE LET t == Trim(raw)
         IN  IF Len(t) > TitleMaxLen THEN Take(t, TitleCutLen) \o Ellipsis
             ELSE IF t # EmptyText THEN t ELSE NewConversationTitle

Message(role, content) == [role |-> role, content |-> content]

\* messages.find(m => m.role === 'user'): index of the first user message, 0 if none
FirstUser(ms) ==
    LET idx == {i \in 1..Len(ms) : ms[i].role = RoleUser}
    IN  IF idx = {} THEN 0 ELSE CHOOSE i \in idx : \A j \in idx : i <= j

\* setSaving(key, saving) on the tag list (kept without duplicates, used as a set)
setSaving(states, key, saving) ==
    IF saving THEN states \cup {key} ELSE states \ {key}

RemoveAt(s, i) == SubSeq(s, 1, i - 1) \o SubSeq(s, i + 1, Len(s))

\* The request object of updateConversation / the arguments of debouncedSave.
SaveRequest(id, hasTitle, t, ms) ==
    [id |-> id, hasTitle |-> hasTitle, title |-> IF hasTitle THEN t ELSE EmptyText,
     messages |-> ms]

NoRequest == SaveRequest(NoId, FALSE, EmptyText, << >>)

\* ---------------------------------------------------------------- debounce
\* utils/debounce: a slot holding the latest arguments and a timer that is
\* restarted by every call and runs the function once it has been quiet for
\* the wait time.
IdleTimer == [armed |-> FALSE, req |-> NoRequest, elapsed |-> 0]

debounce(req) == [armed |-> TRUE, req |-> req, elapsed |-> 0]

Min(a, b) == IF a < b THEN a ELSE b

\* Bookkeeping of a debouncedSave call: the arguments of the call, and how
\* many calls have followed one another less than the wait time apart.
NoteSchedule(req) ==
    /\ lastSched' = req
    /\ burst' = IF timer.armed /\ timer.elapsed < DebounceWait
                  THEN Min(burst + 1, MaxBurst) ELSE 1
    /\ unsent' = TRUE

\* n debouncedSave calls with the same arguments, one right after the other
NoteSchedules(req, n) ==
    /\ lastSched' = req
    /\ burst' = IF timer.armed /\ timer.elapsed < DebounceWait
                  THEN Min(burst + n, MaxBurst) ELSE Min(n, MaxBurst)
    /\ unsent' = TRUE

NoSchedule == UNCHANGED <<lastSched, burst, unsent>>

\* ------------------------------------------------------------ subscribe
\* The keys of the state whose listeners are followed.
SubKeys == {"messages", "input"}
SubIds == 1..MaxSubs

\* a callback that has not been invoked
NoCalls == [n |-> 0, last |-> EmptyText]

Occurrences(ls, id) == Cardinality({k \in 1..Len(ls) : ls[k] = id})

\* notify(key, value): listeners[key].forEach(cb => cb(value))
Notified(c, key, value) ==
    [id \in SubIds |->
        IF Occurrences(listeners[key], id) > 0
          THEN [n |-> c[id].n + Occurrences(listeners[key], id), last |-> value]
          ELSE c[id]]

HasAssistant(ms) == \E i \in 1..Len(ms) : ms[i].role = RoleAssistant

\* no title function has been applied
NoArg == [content |-> EmptyText, raw |-> EmptyText]
NotApplied == <<"?">>

InitTitleFn ==
    /\ titleArg = NoArg
    /\ titleResult = NotApplied

\* titles given to conversations through ConversationService
StoreTitles == { <<"A">>, <<"B">> }

\* a conversation as the backend returns it
Conversation(id, t) == [id |-> id, title |-> t]

Absent == [id |-> NoId, title |-> EmptyText]

NothingDelivered == [kind |-> "none", id |-> NoId, ok |-> TRUE]

\* the module-level singleton: new ConversationStore()
InitStore ==
    /\ conversations = << >>
    /\ storeIsLoading = FALSE
    /\ initialized = FALSE
    /\ apiCalls = << >>
    /\ backend = [i \in ConvIds |-> Absent]
    /\ backendCount = 0
    /\ delivered = NothingDelivered
    /\ apiOps = 0

InitEnv == InitTitleFn /\ InitStore

InitHist ==
    /\ messages = << >>
    /\ conversationId = NoId
    /\ title = NewConversationTitle
    /\ savingStates = {}
    /\ isSaving = FALSE
    /\ pendingSave = FALSE
    /\ titleGenerated = FALSE
    /\ awaitingTitleUpdate = FALSE
    /\ timer = IdleTimer
    /\ creates = << >>
    /\ updates = << >>
    /\ loads = << >>
    /\ titleGens = << >>
    /\ server = [i \in ConvIds |-> [title |-> EmptyText, messages |-> << >>]]
    /\ serverCount = 0
    /\ lastSched = NoRequest
    /\ burst = 0
    /\ unsent = FALSE
    /\ pristine = TRUE
    /\ autoTitled = [i \in ConvIds |-> 0]
    /\ userOps = 0
    /\ epoch = 0
    /\ titleStarts = 0
    /\ failures = {}
    /\ rejected = "none"
    /\ input = EmptyText
    /\ listeners = [k \in SubKeys |-> << >>]
    /\ calls = [id \in SubIds |-> NoCalls]
    /\ nextSub = 1
    /\ unsubscribed = {}

\* addUserMessage starting the list over instead of appending
addUserMessageBody_DropsHistory(content) ==
    /\ rejected' = IF Trim(content) = EmptyText THEN "user" ELSE "none"
    /\ userOps < MaxUserOps
    /\ userOps' = userOps + 1
    /\ IF Trim(content) = EmptyText
         THEN UNCHANGED <<messages, timer, lastSched, burst, unsent, pristine,
                          input, calls>>
         ELSE /\ LET newMessages == << Message(RoleUser, content) >>
                 IN  /\ messages' = newMessages
                     /\ input' = EmptyText
                     /\ calls' = Notified(Notified(calls, "messages", newMessages),
                                          "input", EmptyText)
                     /\ IF conversationId # NoId
                          THEN LET req == SaveRequest(conversationId, FALSE, EmptyText, newMessages)
                               IN  timer' = debounce(req) /\ NoteSchedule(req)
                          ELSE UNCHANGED timer /\ NoSchedule
              /\ pristine' = (pristine /\ ~HasAssistant(messages))
    /\ UNCHANGED <<conversationId, title, savingStates, isSaving, pendingSave,
                   titleGenerated, awaitingTitleUpdate, creates, updates, loads,
                   titleGens, server, serverCount, autoTitled>>
    /\ UNCHANGED <<epoch, titleStarts, failures>>
    /\ UNCHANGED <<listeners, nextSub, unsubscribed>>

\* addUserMessage(content) on the service's own state
addUserMessageBody(content) ==
    /\ rejected' = IF Trim(content) = EmptyText THEN "user" ELSE "none"
    /\ userOps < MaxUserOps
    /\ userOps' = userOps + 1
    /\ IF Trim(content) = EmptyText
         THEN UNCHANGED <<messages, timer, lastSched, burst, unsent, pristine,
                          input, calls>>
         ELSE /\ LET newMessages == Append(messages, Message(RoleUser, content))
                 IN  /\ messages' = newMessages
                     /\ input' = EmptyText
                     /\ calls' = Notified(Notified(calls, "messages", newMessages),
                                          "input", EmptyText)
                     /\ IF conversationId # NoId
                          THEN LET req == SaveRequest(conversationId, FALSE, EmptyText, newMessages)
                               IN  timer' = debounce(req) /\ NoteSchedule(req)
                          ELSE UNCHANGED timer /\ NoSchedule
              /\ pristine' = (pristine /\ ~HasAssistant(messages))
    /\ UNCHANGED <<conversationId, title, savingStates, isSaving, pendingSave,
                   titleGenerated, awaitingTitleUpdate, creates, updates, loads,
                   titleGens, server, serverCount, autoTitled>>
    /\ UNCHANGED <<epoch, titleStarts, failures>>
    /\ UNCHANGED <<listeners, nextSub, unsubscribed>>

\* addUserMessage(content)
addUserMessage(content) ==
    /\ addUserMessageBody(content)
    /\ UNCHANGED <<chatVars, envVars>>

\* addAssistantMessage without the check for an empty content
addAssistantMessageBody_AcceptsEmpty(content) ==
    /\ rejected' = IF content = EmptyText THEN "assistant" ELSE "none"
    /\ userOps < MaxUserOps
    /\ userOps' = userOps + 1
    /\ IF FALSE
         THEN UNCHANGED <<messages, title, awaitingTitleUpdate, savingStates,
                          isSaving, titleGens, timer, creates, lastSched, burst,
                          unsent, pristine, calls>>
         ELSE /\ LET updatedMessages == Append(messages, Message(RoleAssistant, content))
                     isFirstQAComplete == conversationId = NoId /\ Len(updatedMessages) >= 1
                     titleNow == IF isFirstQAComplete THEN PlaceholderTitle ELSE title
                     awaitingNow == IF isFirstQAComplete THEN TRUE ELSE awaitingTitleUpdate
                     u == FirstUser(updatedMessages)
                 IN  /\ messages' = updatedMessages
                     /\ calls' = Notified(calls, "messages", updatedMessages)
                     /\ title' = titleNow
                     /\ awaitingTitleUpdate' = awaitingNow
                     /\ IF isFirstQAComplete
                          THEN /\ Len(titleGens) < MaxInFlight
                               /\ titleGens' = Append(titleGens,
                                     [content |-> Take(JsonStringify(updatedMessages), ContentPrefixLen),
                                      conv |-> epoch])
                               /\ savingStates' = setSaving(savingStates, "title-generation", TRUE)
                               /\ isSaving' = TRUE
                          ELSE UNCHANGED <<titleGens, savingStates, isSaving>>
                     /\ IF conversationId # NoId
                          THEN /\ LET req == SaveRequest(conversationId, awaitingNow, titleNow, updatedMessages)
                                  IN  timer' = debounce(req) /\ NoteSchedule(req)
                               /\ UNCHANGED creates
                          ELSE /\ IF u # 0
                                    THEN /\ Len(creates) < MaxInFlight
                                         /\ creates' = Append(creates,
                                               [title |-> IF titleGenerated THEN titleNow
                                                          ELSE extractTitle(updatedMessages[u].content),
                                                messages |-> updatedMessages,
                                                origin |-> "auto", conv |-> epoch])
                                    ELSE UNCHANGED creates
                               /\ UNCHANGED timer /\ NoSchedule
              /\ pristine' = (pristine /\ ~HasAssistant(messages))
    /\ UNCHANGED <<conversationId, pendingSave, titleGenerated, updates, loads,
                   server, serverCount, autoTitled>>
    /\ titleStarts' = IF content # EmptyText /\ conversationId = NoId
                       THEN Min(titleStarts + 1, 2) ELSE titleStarts
    /\ UNCHANGED <<epoch, failures>>
    /\ UNCHANGED <<input, listeners, nextSub, unsubscribed>>

\* addAssistantMessage(content) on the service's own state
addAssistantMessageBody(content) ==
    /\ rejected' = IF content = EmptyText THEN "assistant" ELSE "none"
    /\ userOps < MaxUserOps
    /\ userOps' = userOps + 1
    /\ IF content = EmptyText
         THEN UNCHANGED <<messages, title, awaitingTitleUpdate, savingStates,
                          isSaving, titleGens, timer, creates, lastSched, burst,
                          unsent, pristine, calls>>
         ELSE /\ LET updatedMessages == Append(messages, Message(RoleAssistant, content))
                     isFirstQAComplete == conversationId = NoId /\ Len(updatedMessages) >= 1
                     titleNow == IF isFirstQAComplete THEN PlaceholderTitle ELSE title
                     awaitingNow == IF isFirstQAComplete THEN TRUE ELSE awaitingTitleUpdate
                     u == FirstUser(updatedMessages)
                 IN  /\ messages' = updatedMessages
                     /\ calls' = Notified(calls, "messages", updatedMessages)
                     /\ title' = titleNow
                     /\ awaitingTitleUpdate' = awaitingNow
                     /\ IF isFirstQAComplete
                          THEN /\ Len(titleGens) < MaxInFlight
                               /\ titleGens' = Append(titleGens,
                                     [content |-> Take(JsonStringify(updatedMessages), ContentPrefixLen),
                                      conv |-> epoch])
                               /\ savingStates' = setSaving(savingStates, "title-generation", TRUE)
                               /\ isSaving' = TRUE
                          ELSE UNCHANGED <<titleGens, savingStates, isSaving>>
                     /\ IF conversationId # NoId
                          THEN /\ LET req == SaveRequest(conversationId, awaitingNow, titleNow, updatedMessages)
                                  IN  timer' = debounce(req) /\ NoteSchedule(req)
                               /\ UNCHANGED creates
                          ELSE /\ IF u # 0
                                    THEN /\ Len(creates) < MaxInFlight
                                         /\ creates' = Append(creates,
                                               [title |-> IF titleGenerated THEN titleNow
                                                          ELSE extractTitle(updatedMessages[u].content),
                                                messages |-> updatedMessages,
                                                origin |-> "auto", conv |-> epoch])
                                    ELSE UNCHANGED creates
                               /\ UNCHANGED timer /\ NoSchedule
              /\ pristine' = (pristine /\ ~HasAssistant(messages))
    /\ UNCHANGED <<conversationId, pendingSave, titleGenerated, updates, loads,
                   server, serverCount, autoTitled>>
    /\ titleStarts' = IF content # EmptyText /\ conversationId = NoId
                       THEN Min(titleStarts + 1, 2) ELSE titleStarts
    /\ UNCHANGED <<epoch, failures>>
    /\ UNCHANGED <<input, listeners, nextSub, unsubscribed>>

\* addAssistantMessage(content), up to the requests it issues
addAssistantMessage(content) ==
    /\ addAssistantMessageBody(content)
    /\ UNCHANGED <<chatVars, envVars>>

\* saveConversation without the check for an empty message list
saveConversation_SavesEmpty(t) ==
    /\ rejected' = "none"
    /\ userOps < MaxUserOps
    /\ userOps' = userOps + 1
    /\ IF FALSE
         THEN UNCHANGED <<savingStates, isSaving, creates, updates, pristine>>
         ELSE /\ savingStates' = setSaving(savingStates, "conversation-create", TRUE)
              /\ isSaving' = TRUE
              /\ pristine' = FALSE
              /\ IF conversationId = NoId
                   THEN /\ Len(creates) < MaxInFlight
                        /\ creates' = Append(creates,
                              [title |-> t, messages |-> messages, origin |-> "explicit",
                               conv |-> epoch])
                        /\ UNCHANGED updates
                   ELSE /\ Len(updates) < MaxInFlight
                        /\ updates' = Append(updates,
                              [req |-> SaveRequest(conversationId, TRUE, t, messages),
                               origin |-> "explicit"])
                        /\ UNCHANGED creates
    /\ UNCHANGED <<messages, conversationId, title, pendingSave, titleGenerated,
                   awaitingTitleUpdate, timer, loads, titleGens, server,
                   serverCount, lastSched, burst, unsent, autoTitled>>
    /\ UNCHANGED <<chatVars, envVars>>
    /\ UNCHANGED <<input, subVars>>
    /\ UNCHANGED <<epoch, titleStarts, failures>>

\* saveConversation(title), up to the request it awaits
saveConversation(t) ==
    /\ rejected' = IF Len(messages) = 0 THEN "save" ELSE "none"
    /\ userOps < MaxUserOps
    /\ userOps' = userOps + 1
    /\ IF Len(messages) = 0
         THEN UNCHANGED <<savingStates, isSaving, creates, updates, pristine>>
         ELSE /\ savingStates' = setSaving(savingStates, "conversation-create", TRUE)
              /\ isSaving' = TRUE
              /\ pristine' = FALSE
              /\ IF conversationId = NoId
                   THEN /\ Len(creates) < MaxInFlight
                        /\ creates' = Append(creates,
                              [title |-> t, messages |-> messages, origin |-> "explicit",
                               conv |-> epoch])
                        /\ UNCHANGED updates
                   ELSE /\ Len(updates) < MaxInFlight
                        /\ updates' = Append(updates,
                              [req |-> SaveRequest(conversationId, TRUE, t, messages),
                               origin |-> "explicit"])
                        /\ UNCHANGED creates
    /\ UNCHANGED <<messages, conversationId, title, pendingSave, titleGenerated,
                   awaitingTitleUpdate, timer, loads, titleGens, server,
                   serverCount, lastSched, burst, unsent, autoTitled>>
    /\ UNCHANGED <<chatVars, envVars>>
    /\ UNCHANGED <<input, subVars>>
    /\ UNCHANGED <<epoch, titleStarts, failures>>

\* A create call completes: the .then/.catch of addAssistantMessage, or the
\* rest of saveConversation.
createDone(i, ok) ==
    /\ rejected' = "none"
    /\ i \in 1..Len(creates)
    /\ ok => serverCount < MaxConvs
    /\ creates' = RemoveAt(creates, i)
    /\ IF ok
         THEN /\ serverCount' = serverCount + 1
              /\ server' = [server EXCEPT ![serverCount + 1] =
                                [title |-> creates[i].title, messages |-> creates[i].messages]]
              /\ conversationId' = serverCount + 1
              /\ UNCHANGED <<awaitingTitleUpdate, pristine>>
         ELSE /\ awaitingTitleUpdate' =
                    IF creates[i].origin = "auto" THEN FALSE ELSE awaitingTitleUpdate
              /\ pristine' = FALSE
              /\ UNCHANGED <<server, serverCount, conversationId>>
    /\ IF creates[i].origin = "explicit"
         THEN /\ savingStates' = setSaving(savingStates, "conversation-create", FALSE)
              /\ isSaving' = (savingStates' # {})
         ELSE UNCHANGED <<savingStates, isSaving>>
    /\ UNCHANGED <<userOps, messages, title, pendingSave, titleGenerated, timer, updates,
                   loads, titleGens, lastSched, burst, unsent, autoTitled>>
    /\ UNCHANGED <<chatVars, envVars>>
    /\ UNCHANGED <<input, subVars>>
    /\ failures' = IF ~ok /\ creates[i].origin = "auto" /\ creates[i].conv = epoch
                    THEN failures \cup {"create"} ELSE failures
    /\ UNCHANGED <<epoch, titleStarts>>

\* Time passes while the debounce timer is running.
debounceTick ==
    /\ rejected' = "none"
    /\ timer.armed
    /\ timer.elapsed < DebounceWait
    /\ timer' = [timer EXCEPT !.elapsed = @ + TickStep]
    /\ UNCHANGED <<userOps, messages, conversationId, title, savingStates, isSaving,
                   pendingSave, titleGenerated, awaitingTitleUpdate, creates,
                   updates, loads, titleGens, server, serverCount, lastSched,
                   burst, unsent, pristine, autoTitled>>
    /\ UNCHANGED <<chatVars, envVars>>
    /\ UNCHANGED <<input, subVars>>
    /\ UNCHANGED <<epoch, titleStarts, failures>>

\* debouncedSave's body sending the messages without the title
debouncedSaveBody_DropsTitle(req) ==
    IF ~pendingSave
      THEN /\ pendingSave' = TRUE
           /\ savingStates' = setSaving(savingStates, "conversation-update", TRUE)
           /\ isSaving' = TRUE
           /\ updates' = Append(updates, [req |-> SaveRequest(req.id, FALSE, EmptyText, req.messages),
                                      origin |-> "debounced"])
           /\ unsent' = FALSE
           /\ autoTitled' = IF req.hasTitle
                              THEN [autoTitled EXCEPT ![req.id] = Min(@ + 1, 2)]
                              ELSE autoTitled
      ELSE UNCHANGED <<pendingSave, savingStates, isSaving, updates, unsent, autoTitled>>

\* The function wrapped by debounce: debouncedSave's body
debouncedSaveBody(req) ==
    IF ~pendingSave
      THEN /\ pendingSave' = TRUE
           /\ savingStates' = setSaving(savingStates, "conversation-update", TRUE)
           /\ isSaving' = TRUE
           /\ updates' = Append(updates, [req |-> req, origin |-> "debounced"])
           /\ unsent' = FALSE
           /\ autoTitled' = IF req.hasTitle
                              THEN [autoTitled EXCEPT ![req.id] = Min(@ + 1, 2)]
                              ELSE autoTitled
      ELSE UNCHANGED <<pendingSave, savingStates, isSaving, updates, unsent, autoTitled>>

\* The debounce timer expires and runs debouncedSave's body.
debounceFire ==
    /\ rejected' = "none"
    /\ timer.armed
    /\ timer.elapsed >= DebounceWait
    /\ ~pendingSave => Len(updates) < MaxInFlight
    /\ timer' = IdleTimer
    /\ debouncedSaveBody(timer.req)
    /\ UNCHANGED <<userOps, messages, conversationId, title, titleGenerated,
                   awaitingTitleUpdate, creates, loads, titleGens, server,
                   serverCount, lastSched, burst, pristine>>
    /\ UNCHANGED <<chatVars, envVars>>
    /\ UNCHANGED <<input, subVars>>
    /\ UNCHANGED <<epoch, titleStarts, failures>>

\* the update's cleanup registered with .then instead of .finally
updateDone_CleansUpOnSuccessOnly(i, ok) ==
    /\ rejected' = "none"
    /\ i \in 1..Len(updates)
    /\ updates' = RemoveAt(updates, i)
    /\ LET r == updates[i].req
       IN  IF ok
             THEN /\ server' = [server EXCEPT ![r.id] =
                                  [title |-> IF r.hasTitle THEN r.title ELSE @.title,
                                   messages |-> r.messages]]
                  /\ UNCHANGED pristine
             ELSE /\ pristine' = FALSE
                  /\ UNCHANGED server
    /\ IF updates[i].origin = "debounced"
         THEN /\ savingStates' = setSaving(savingStates, "conversation-update", ~ok)
              /\ pendingSave' = IF ok THEN FALSE ELSE pendingSave
         ELSE /\ savingStates' = setSaving(savingStates, "conversation-create", FALSE)
              /\ UNCHANGED pendingSave
    /\ isSaving' = (savingStates' # {})
    /\ UNCHANGED <<userOps, messages, conversationId, title, titleGenerated,
                   awaitingTitleUpdate, timer, creates, loads, titleGens,
                   serverCount, lastSched, burst, unsent, autoTitled>>
    /\ UNCHANGED <<chatVars, envVars>>
    /\ UNCHANGED <<input, subVars>>
    /\ failures' = IF ~ok /\ updates[i].origin = "debounced"
                    THEN failures \cup {"update"} ELSE failures
    /\ UNCHANGED <<epoch, titleStarts>>

\* An update call completes: .catch/.finally of debouncedSave, or the rest of
\* saveConversation.
updateDone(i, ok) ==
    /\ rejected' = "none"
    /\ i \in 1..Len(updates)
    /\ updates' = RemoveAt(updates, i)
    /\ LET r == updates[i].req
       IN  IF ok
             THEN /\ server' = [server EXCEPT ![r.id] =
                                  [title |-> IF r.hasTitle THEN r.title ELSE @.title,
                                   messages |-> r.messages]]
                  /\ UNCHANGED pristine
             ELSE /\ pristine' = FALSE
                  /\ UNCHANGED server
    /\ IF updates[i].origin = "debounced"
         THEN /\ savingStates' = setSaving(savingStates, "conversation-update", FALSE)
              /\ pendingSave' = FALSE
         ELSE /\ savingStates' = setSaving(savingStates, "conversation-create", FALSE)
              /\ UNCHANGED pendingSave
    /\ isSaving' = (savingStates' # {})
    /\ UNCHANGED <<userOps, messages, conversationId, title, titleGenerated,
                   awaitingTitleUpdate, timer, creates, loads, titleGens,
                   serverCount, lastSched, burst, unsent, autoTitled>>
    /\ UNCHANGED <<chatVars, envVars>>
    /\ UNCHANGED <<input, subVars>>
    /\ failures' = IF ~ok /\ updates[i].origin = "debounced"
                    THEN failures \cup {"update"} ELSE failures
    /\ UNCHANGED <<epoch, titleStarts>>

\* generateTitle scheduling the update without clearing awaitingTitleUpdate
titleGenDone_KeepsFlag(i, raw) ==
    /\ rejected' = "none"
    /\ i \in 1..Len(titleGens)
    /\ titleGens' = RemoveAt(titleGens, i)
    /\ LET t == generateTitleResult(titleGens[i].content, raw)
           \* generateTitle, lines 197-202
           flush1 == conversationId # NoId /\ awaitingTitleUpdate
           awaiting1 == awaitingTitleUpdate
           \* continuation, lines 153-157
           flush2 == conversationId # NoId /\ awaiting1
           req == SaveRequest(conversationId, TRUE, t, messages)
       IN  /\ titleGenerated' = TRUE
           /\ title' = t
           /\ awaitingTitleUpdate' = (IF flush2 THEN FALSE ELSE awaiting1)
           /\ IF flush1 \/ flush2
                THEN /\ timer' = debounce(req)
                     /\ NoteSchedules(req, (IF flush1 THEN 1 ELSE 0) + (IF flush2 THEN 1 ELSE 0))
                ELSE UNCHANGED timer /\ NoSchedule
    /\ savingStates' = setSaving(savingStates, "title-generation", FALSE)
    /\ isSaving' = (savingStates' # {})
    /\ pristine' = (pristine /\ raw # TitleRequestFailed)
    /\ UNCHANGED <<userOps, messages, conversationId, pendingSave, creates, updates,
                   loads, server, serverCount, autoTitled>>
    /\ UNCHANGED <<chatVars, envVars>>
    /\ UNCHANGED <<input, subVars>>
    /\ failures' = IF raw = TitleRequestFailed /\ titleGens[i].conv = epoch
                    THEN failures \cup {"title"} ELSE failures
    /\ UNCHANGED <<epoch, titleStarts>>

\* A title-generation call completes: the rest of generateTitle, then the
\* continuation registered by addAssistantMessage.
titleGenDone(i, raw) ==
    /\ rejected' = "none"
    /\ i \in 1..Len(titleGens)
    /\ titleGens' = RemoveAt(titleGens, i)
    /\ LET t == generateTitleResult(titleGens[i].content, raw)
           \* generateTitle, lines 197-202
           flush1 == conversationId # NoId /\ awaitingTitleUpdate
           awaiting1 == IF flush1 THEN FALSE ELSE awaitingTitleUpdate
           \* continuation, lines 153-157
           flush2 == conversationId # NoId /\ awaiting1
           req == SaveRequest(conversationId, TRUE, t, messages)
       IN  /\ titleGenerated' = TRUE
           /\ title' = t
           /\ awaitingTitleUpdate' = (IF flush2 THEN FALSE ELSE awaiting1)
           /\ IF flush1 \/ flush2
                THEN /\ timer' = debounce(req)
                     /\ NoteSchedules(req, (IF flush1 THEN 1 ELSE 0) + (IF flush2 THEN 1 ELSE 0))
                ELSE UNCHANGED timer /\ NoSchedule
    /\ savingStates' = setSaving(savingStates, "title-generation", FALSE)
    /\ isSaving' = (savingStates' # {})
    /\ pristine' = (pristine /\ raw # TitleRequestFailed)
    /\ UNCHANGED <<userOps, messages, conversationId, pendingSave, creates, updates,
                   loads, server, serverCount, autoTitled>>
    /\ UNCHANGED <<chatVars, envVars>>
    /\ UNCHANGED <<input, subVars>>
    /\ failures' = IF raw = TitleRequestFailed /\ titleGens[i].conv = epoch
                    THEN failures \cup {"title"} ELSE failures
    /\ UNCHANGED <<epoch, titleStarts>>

\* the reset without clearing titleGenerated and awaitingTitleUpdate
setConversationId_KeepsTitleState(id) ==
    /\ rejected' = "none"
    /\ userOps < MaxUserOps
    /\ userOps' = userOps + 1
    /\ pristine' = FALSE
    /\ id <= serverCount
    /\ IF id # NoId
         THEN /\ Len(loads) < MaxInFlight
              /\ loads' = Append(loads, [id |-> id, conv |-> epoch])
              /\ savingStates' = setSaving(savingStates, "conversation-load", TRUE)
              /\ isSaving' = TRUE
              /\ UNCHANGED <<conversationId, messages, title, titleGenerated,
                             awaitingTitleUpdate, epoch, titleStarts, failures, calls>>
         ELSE /\ conversationId' = NoId
              /\ epoch' = epoch + 1
              /\ titleStarts' = 0
              /\ failures' = {}
              /\ messages' = << >>
              /\ calls' = Notified(calls, "messages", << >>)
              /\ title' = NewConversationTitle
              /\ UNCHANGED <<titleGenerated, awaitingTitleUpdate>>
              /\ savingStates' = {}
              /\ UNCHANGED <<loads, isSaving>>
    /\ UNCHANGED <<pendingSave, timer, creates, updates, titleGens, server,
                   serverCount, lastSched, burst, unsent, autoTitled>>
    /\ UNCHANGED <<input, listeners, nextSub, unsubscribed>>
    /\ UNCHANGED <<chatVars, envVars>>

\* setConversationId(id): a reset for null, a load otherwise
setConversationId(id) ==
    /\ rejected' = "none"
    /\ userOps < MaxUserOps
    /\ userOps' = userOps + 1
    /\ pristine' = FALSE
    /\ id <= serverCount
    /\ IF id # NoId
         THEN /\ Len(loads) < MaxInFlight
              /\ loads' = Append(loads, [id |-> id, conv |-> epoch])
              /\ savingStates' = setSaving(savingStates, "conversation-load", TRUE)
              /\ isSaving' = TRUE
              /\ UNCHANGED <<conversationId, messages, title, titleGenerated,
                             awaitingTitleUpdate, epoch, titleStarts, failures, calls>>
         ELSE /\ conversationId' = NoId
              /\ epoch' = epoch + 1
              /\ titleStarts' = 0
              /\ failures' = {}
              /\ messages' = << >>
              /\ calls' = Notified(calls, "messages", << >>)
              /\ title' = NewConversationTitle
              /\ titleGenerated' = FALSE
              /\ awaitingTitleUpdate' = FALSE
              /\ savingStates' = {}
              /\ UNCHANGED <<loads, isSaving>>
    /\ UNCHANGED <<pendingSave, timer, creates, updates, titleGens, server,
                   serverCount, lastSched, burst, unsent, autoTitled>>
    /\ UNCHANGED <<input, listeners, nextSub, unsubscribed>>
    /\ UNCHANGED <<chatVars, envVars>>

\* A getConversation call completes: the rest of loadConversation.
loadDone(i, ok) ==
    /\ rejected' = "none"
    /\ i \in 1..Len(loads)
    /\ loads' = RemoveAt(loads, i)
    /\ IF ok
         THEN /\ messages' = server[loads[i].id].messages
              /\ calls' = Notified(calls, "messages", server[loads[i].id].messages)
              /\ conversationId' = loads[i].id
              /\ epoch' = epoch + 1
              /\ failures' = {}
              /\ UNCHANGED pristine
         ELSE /\ pristine' = FALSE
              /\ UNCHANGED <<messages, conversationId, epoch, failures, calls>>
    /\ savingStates' = setSaving(savingStates, "conversation-load", FALSE)
    /\ isSaving' = (savingStates' # {})
    /\ UNCHANGED <<userOps, title, pendingSave, titleGenerated, awaitingTitleUpdate, timer,
                   creates, updates, titleGens, server, serverCount, lastSched,
                   burst, unsent, autoTitled>>
    /\ UNCHANGED <<chatVars, envVars>>
    /\ UNCHANGED titleStarts
    /\ UNCHANGED <<input, listeners, nextSub, unsubscribed>>

\* ----------------------------------------------------------- specifications
NextChat ==
    \/ SendMessage
    \/ \E s \in SessionIds : StreamOpen(s)
    \/ \E s \in SessionIds, c \in ChunkContents : StreamChunk(s, c)
    \/ \E s \in SessionIds : StreamEnd(s)
    \/ \E s \in SessionIds : StreamError(s)
    \/ \E s \in SessionIds : AbortObserved(s)
    \/ CancelStream

\* The Stream Coordinator on its own.
InitStream == InitChat /\ InitHist /\ InitEnv

SpecChat == InitStream /\ [][NextChat]_vars

NextHist ==
    \/ \E c \in UserContents : addUserMessage(c)
    \/ \E c \in AssistantContents : addAssistantMessage(c)
    \/ \E t \in ExplicitTitles : saveConversation(t)
    \/ \E i \in 1..MaxInFlight, ok \in BOOLEAN : createDone(i, ok)
    \/ debounceTick
    \/ debounceFire
    \/ \E i \in 1..MaxInFlight, ok \in BOOLEAN : updateDone(i, ok)
    \/ \E i \in 1..MaxInFlight, raw \in TitleOutcomes : titleGenDone(i, raw)
    \/ \E id \in 0..MaxConvs : setConversationId(id)
    \/ \E i \in 1..MaxInFlight, ok \in BOOLEAN : loadDone(i, ok)

ChatIdle ==
    /\ draft = "hook"
    /\ isLoading = FALSE
    /\ currentStreamingMessage = EmptyText
    /\ abortController = NoController
    /\ aborted = {}
    /\ sessions = [s \in SessionIds |-> FreshSession]
    /\ nextSession = 1
    /\ chatOp = "init"
    /\ chatReturn = EmptyText
    /\ resolved = {}

\* The contents addUserMessage and addAssistantMessage accept.
ValidUserContents == {c \in UserContents : Trim(c) # EmptyText}
ValidAssistantContents == {c \in AssistantContents : c # EmptyText}

NextValid ==
    \/ \E c \in ValidUserContents : addUserMessage(c)
    \/ \E c \in ValidAssistantContents : addAssistantMessage(c)
    \/ \E t \in ExplicitTitles : saveConversation(t)
    \/ \E i \in 1..MaxInFlight, ok \in BOOLEAN : createDone(i, ok)
    \/ debounceTick
    \/ debounceFire
    \/ \E i \in 1..MaxInFlight, ok \in BOOLEAN : updateDone(i, ok)
    \/ \E i \in 1..MaxInFlight, raw \in TitleOutcomes : titleGenDone(i, raw)
    \/ \E id \in 0..MaxConvs : setConversationId(id)
    \/ \E i \in 1..MaxInFlight, ok \in BOOLEAN : loadDone(i, ok)

\* The ChatHistoryService on its own, called with contents it accepts.
Init == ChatIdle /\ InitHist /\ InitEnv

Next == NextValid

Spec == Init /\ [][Next]_vars

\* The ChatHistoryService called with any content, the rejected ones included.
InitInput == ChatIdle /\ InitHist /\ InitEnv

SpecInput == InitInput /\ [][NextHist]_vars

\* The first exchange of a conversation whose user message is longer than
\* the 30 characters extractTitle keeps.
LongUserContents ==
    { <<"E", "x", "p", "l", "a", "i", "n", " ", "q", "u", "a", "n", "t", "u", "m", " ", "c", "o", "m", "p", "u", "t", "i", "n", "g", " ", "s", "i", "m", "p", "l", "y">> }

NextFallback ==
    \/ \E c \in LongUserContents : addUserMessage(c)
    \/ \E c \in AssistantContents : addAssistantMessage(c)
    \/ \E i \in 1..MaxInFlight, ok \in BOOLEAN : createDone(i, ok)
    \/ debounceTick
    \/ debounceFire
    \/ \E i \in 1..MaxInFlight, ok \in BOOLEAN : updateDone(i, ok)
    \/ \E i \in 1..MaxInFlight, raw \in TitleOutcomes : titleGenDone(i, raw)

InitFallback == ChatIdle /\ InitHist /\ InitEnv

SpecFallback == InitFallback /\ [][NextFallback]_vars

\* ------------------------------------------------------ title functions
RECURSIVE Repeat(_, _)
Repeat(ch, n) == IF n = 0 THEN << >> ELSE <<ch>> \o Repeat(ch, n - 1)

\* a text of n letters with a spaces before it and b spaces after it
Padded(a, n, b) == Repeat(" ", a) \o Repeat("a", n) \o Repeat(" ", b)

\* contents given to extractTitle
TitleContents == { Padded(a, n, b) : a \in 0..MaxPad, n \in 0..MaxWord, b \in 0..MaxPad }

\* answers of the title model
RawAnswers == { Padded(a, n, b) : a \in 0..MaxPad, n \in 0..MaxRaw, b \in 0..MaxPad }

\* A title function is applied to: a content whose title request fails, or
\* the first exchange with an answer of the title model.
TitleArgs ==
    { [content |-> c, raw |-> TitleRequestFailed] : c \in TitleContents }
    \cup { [content |-> c, raw |-> r] : c \in {Padded(0, 2, 0)}, r \in RawAnswers }

Applied(fn, value) == <<fn, value>>

\* extractTitle(content) / extractSimpleTitle(content) is called
extractTitleCall ==
    /\ titleResult = NotApplied
    /\ titleResult' = Applied("extractTitle", extractTitle(titleArg.content))
    /\ UNCHANGED <<titleArg, storeVars, chatVars, histVars>>

\* generateTitle(content) is called and the title request completes
generateTitleCall ==
    /\ titleResult = NotApplied
    /\ titleResult' = Applied("generateTitle",
                              generateTitleResult(titleArg.content, titleArg.raw))
    /\ UNCHANGED <<titleArg, storeVars, chatVars, histVars>>

NextTitle ==
    \/ extractTitleCall
    \/ generateTitleCall

InitTitle ==
    /\ ChatIdle
    /\ InitHist
    /\ InitStore
    /\ titleArg \in TitleArgs
    /\ titleResult = NotApplied

SpecTitle == InitTitle /\ [][NextTitle]_vars

\* ------------------------------------- ChatHistoryService: subscriptions
\* this.state[key]
StateValue(key) == IF key = "messages" THEN messages ELSE input

\* what is typed into the input field
InputValues == UserContents

OnlyCallsChange ==
    /\ UNCHANGED <<messages, conversationId, title, savingStates, isSaving,
                   pendingSave, titleGenerated, awaitingTitleUpdate, timer,
                   creates, updates, loads, titleGens, server, serverCount,
                   lastSched, burst, unsent, pristine, autoTitled, epoch,
                   titleStarts, failures>>
    /\ UNCHANGED <<chatVars, envVars>>

\* subscribe(key, cb) with a new callback cb: cb is registered and invoked
\* with the current value; the handle returned stands for cb's number.
subscribe(key) ==
    /\ rejected' = "none"
    /\ nextSub <= MaxSubs
    /\ nextSub' = nextSub + 1
    /\ listeners' = [listeners EXCEPT ![key] = Append(@, nextSub)]
    /\ calls' = [calls EXCEPT ![nextSub] = [n |-> @.n + 1, last |-> StateValue(key)]]
    /\ UNCHANGED <<input, unsubscribed, userOps>>
    /\ OnlyCallsChange

\* an unsubscribe handle that leaves the callback registered
unsubscribe_RemovesNothing(id) ==
    /\ rejected' = "none"
    /\ id < nextSub
    /\ id \notin unsubscribed
    /\ unsubscribed' = unsubscribed \cup {id}
    /\ listeners' = listeners
    /\ UNCHANGED <<input, calls, nextSub, userOps>>
    /\ OnlyCallsChange

\* The handle returned by subscribe is called: the callback is filtered out
\* of the listeners of its key.
unsubscribe(id) ==
    /\ rejected' = "none"
    /\ id < nextSub
    /\ id \notin unsubscribed
    /\ unsubscribed' = unsubscribed \cup {id}
    /\ listeners' = [k \in SubKeys |->
                        IF Occurrences(listeners[k], id) > 0
                          THEN SelectSeq(listeners[k], LAMBDA fn : fn # id)
                          ELSE listeners[k]]
    /\ UNCHANGED <<input, calls, nextSub, userOps>>
    /\ OnlyCallsChange

\* setInput(value)
setInput(value) ==
    /\ rejected' = "none"
    /\ userOps < MaxUserOps
    /\ userOps' = userOps + 1
    /\ input' = value
    /\ calls' = Notified(calls, "input", value)
    /\ UNCHANGED <<listeners, nextSub, unsubscribed>>
    /\ OnlyCallsChange

NextSubscribe ==
    \/ \E k \in SubKeys : subscribe(k)
    \/ \E id \in SubIds : unsubscribe(id)
    \/ \E v \in InputValues : setInput(v)
    \/ \E c \in UserContents : addUserMessage(c)

InitSubscribe == ChatIdle /\ InitHist /\ InitEnv

SpecSubscribe == InitSubscribe /\ [][NextSubscribe]_vars

\* The ChatHistoryService with its input buffer: the text typed is kept by
\* setInput, and the messages are added with any content.
NextBuffer ==
    \/ \E v \in InputValues : setInput(v)
    \/ \E c \in UserContents : addUserMessage(c)
    \/ \E c \in AssistantContents : addAssistantMessage(c)
    \/ \E i \in 1..MaxInFlight, ok \in BOOLEAN : createDone(i, ok)
    \/ debounceTick
    \/ debounceFire
    \/ \E i \in 1..MaxInFlight, ok \in BOOLEAN : updateDone(i, ok)
    \/ \E i \in 1..MaxInFlight, raw \in TitleOutcomes : titleGenDone(i, raw)

InitBuffer == ChatIdle /\ InitHist /\ InitEnv

SpecBuffer == InitBuffer /\ [][NextBuffer]_vars

\* ------------------------------- ChatHistoryService, RxJS draft: saving
\* The RxJS draft has the same addUserMessage as the first draft and differs
\* in how an update is sent: debouncedSave pushes the request into the
\* saveConversation$ pipeline built by the constructor.

\* The debounce timer expires and runs debouncedSave's body (lines 348-358);
\* the pipeline sets isSaving and issues the update call (lines 378-384).
rxDebounceFire ==
    /\ rejected' = "none"
    /\ timer.armed
    /\ timer.elapsed >= DebounceWait
    /\ ~pendingSave => Len(updates) < MaxInFlight
    /\ timer' = IdleTimer
    /\ IF ~pendingSave
         THEN /\ pendingSave' = TRUE
              /\ isSaving' = TRUE
              /\ updates' = Append(updates, [req |-> timer.req, origin |-> "debounced"])
              /\ unsent' = FALSE
              /\ autoTitled' = IF timer.req.hasTitle
                                 THEN [autoTitled EXCEPT ![timer.req.id] = Min(@ + 1, 2)]
                                 ELSE autoTitled
         ELSE UNCHANGED <<pendingSave, isSaving, updates, unsent, autoTitled>>
    /\ UNCHANGED <<userOps, messages, conversationId, title, titleGenerated,
                   awaitingTitleUpdate, creates, loads, titleGens, server,
                   serverCount, lastSched, burst, pristine, savingStates>>
    /\ UNCHANGED <<epoch, titleStarts, failures>>
    /\ UNCHANGED <<input, subVars>>
    /\ UNCHANGED <<chatVars, envVars>>

\* An update call of the pipeline completes: an error is replaced by null
\* inside switchMap (lines 385-388) and the result is logged (lines 395-399).
\* finalize (lines 391-394) is attached to the pipeline, which ends only
\* when saveConversation$ completes, and nothing completes it.
rxUpdateDone(i, ok) ==
    /\ rejected' = "none"
    /\ i \in 1..Len(updates)
    /\ updates' = RemoveAt(updates, i)
    /\ LET r == updates[i].req
       IN  IF ok
             THEN /\ server' = [server EXCEPT ![r.id] =
                                  [title |-> IF r.hasTitle THEN r.title ELSE @.title,
                                   messages |-> r.messages]]
                  /\ UNCHANGED pristine
             ELSE /\ pristine' = FALSE
                  /\ UNCHANGED server
    /\ UNCHANGED <<pendingSave, isSaving, savingStates>>
    /\ UNCHANGED <<userOps, messages, conversationId, title, titleGenerated,
                   awaitingTitleUpdate, timer, creates, loads, titleGens,
                   serverCount, lastSched, burst, unsent, autoTitled>>
    /\ failures' = IF ~ok THEN failures \cup {"update"} ELSE failures
    /\ UNCHANGED <<epoch, titleStarts>>
    /\ UNCHANGED <<input, subVars>>
    /\ UNCHANGED <<chatVars, envVars>>

\* A getConversation call completes: the subscriber of loadConversation
\* (lines 405-415).
rxLoadDone(i, ok) ==
    /\ rejected' = "none"
    /\ i \in 1..Len(loads)
    /\ loads' = RemoveAt(loads, i)
    /\ IF ok
         THEN /\ messages' = server[loads[i].id].messages
              /\ conversationId' = loads[i].id
              /\ epoch' = epoch + 1
              /\ failures' = {}
              /\ UNCHANGED pristine
         ELSE /\ pristine' = FALSE
              /\ UNCHANGED <<messages, conversationId, epoch, failures>>
    /\ isSaving' = FALSE
    /\ UNCHANGED <<userOps, title, pendingSave, titleGenerated, awaitingTitleUpdate, timer,
                   creates, updates, titleGens, server, serverCount, lastSched,
                   burst, unsent, autoTitled, savingStates, titleStarts>>
    /\ UNCHANGED <<input, subVars>>
    /\ UNCHANGED <<chatVars, envVars>>

NextRx ==
    \/ \E c \in UserContents : addUserMessage(c)
    \/ debounceTick
    \/ rxDebounceFire
    \/ \E i \in 1..MaxInFlight, ok \in BOOLEAN : rxUpdateDone(i, ok)
    \/ \E i \in 1..MaxInFlight, ok \in BOOLEAN : rxLoadDone(i, ok)

\* The conversation the service is constructed for, as the backend holds it.
StoredExchange ==
    [title |-> <<"T">>,
     messages |-> <<Message(RoleUser, <<"h", "i">>), Message(RoleAssistant, <<"o", "k">>)>>]

\* new ChatHistoryService([], id) of the RxJS draft (lines 360-400): the
\* identifier is set and loadConversation(id) has been started.
InitRxHist ==
    /\ messages = << >>
    /\ conversationId = 1
    /\ title = NewConversationTitle
    /\ savingStates = {}
    /\ isSaving = TRUE
    /\ pendingSave = FALSE
    /\ titleGenerated = FALSE
    /\ awaitingTitleUpdate = FALSE
    /\ timer = IdleTimer
    /\ creates = << >>
    /\ updates = << >>
    /\ loads = << [id |-> 1, conv |-> 0] >>
    /\ titleGens = << >>
    /\ server = [i \in ConvIds |-> IF i = 1 THEN StoredExchange
                                   ELSE [title |-> EmptyText, messages |-> << >>]]
    /\ serverCount = 1
    /\ lastSched = NoRequest
    /\ burst = 0
    /\ unsent = FALSE
    /\ pristine = TRUE
    /\ autoTitled = [i \in ConvIds |-> 0]
    /\ userOps = 0
    /\ epoch = 0
    /\ titleStarts = 0
    /\ failures = {}
    /\ rejected = "none"
    /\ input = EmptyText
    /\ listeners = [k \in SubKeys |-> << >>]
    /\ calls = [id \in SubIds |-> NoCalls]
    /\ nextSub = 1
    /\ unsubscribed = {}

InitRx == ChatIdle /\ InitRxHist /\ InitEnv

SpecRx == InitRx /\ [][NextRx]_vars

\* ------------------------------ ConversationStore and ConversationService
\* conversations.findIndex(c => c.id === id) >= 0
InStore(cs, id) == \E k \in 1..Len(cs) : cs[k].id = id

\* ConversationStore.updateConversation(conversation)
storeUpdateConversation(cs, conversation) ==
    IF InStore(cs, conversation.id)
      THEN LET index == CHOOSE k \in 1..Len(cs) :
                           /\ cs[k].id = conversation.id
                           /\ \A h \in 1..(k - 1) : cs[h].id # conversation.id
           IN  [cs EXCEPT ![index] = conversation]
      ELSE Append(cs, conversation)

\* ConversationStore.removeConversation(id)
storeRemoveConversation(cs, id) == SelectSeq(cs, LAMBDA c : c.id # id)

\* the conversations of the backend, as GET /conversations returns them
BackendList ==
    LET RECURSIVE upTo(_)
        upTo(n) == IF n = 0 THEN << >>
                   ELSE IF backend[n] # Absent THEN Append(upTo(n - 1), backend[n])
                        ELSE upTo(n - 1)
    IN  upTo(MaxConvs)

\* a call that has been sent and not yet handled by the backend
Request(kind, id, t) ==
    [kind |-> kind, id |-> id, title |-> t, phase |-> "sent", ok |-> FALSE,
     body |-> Absent, list |-> << >>]

StartCall(req) ==
    /\ apiOps < MaxApiOps
    /\ Len(apiCalls) < MaxInFlight
    /\ apiOps' = apiOps + 1
    /\ apiCalls' = Append(apiCalls, req)
    /\ UNCHANGED <<backend, backendCount, delivered>>

\* ConversationStore.loadConversations(), up to the request it awaits
loadConversations ==
    /\ storeIsLoading' = TRUE
    /\ StartCall(Request("getAll", NoId, EmptyText))
    /\ UNCHANGED <<conversations, initialized>>
    /\ UNCHANGED <<chatVars, histVars, fnVars>>

\* ConversationService.createConversation(title, messages): the request
svcCreateConversation(t) ==
    /\ StartCall(Request("create", NoId, t))
    /\ UNCHANGED <<conversations, storeIsLoading, initialized>>
    /\ UNCHANGED <<chatVars, histVars, fnVars>>

\* ConversationService.updateConversation(id, update): the request
svcUpdateConversation(id, t) ==
    /\ StartCall(Request("update", id, t))
    /\ UNCHANGED <<conversations, storeIsLoading, initialized>>
    /\ UNCHANGED <<chatVars, histVars, fnVars>>

\* ConversationService.deleteConversation(id): the request
svcDeleteConversation(id) ==
    /\ StartCall(Request("delete", id, EmptyText))
    /\ UNCHANGED <<conversations, storeIsLoading, initialized>>
    /\ UNCHANGED <<chatVars, histVars, fnVars>>

\* The backend handles a request and answers it; up = FALSE stands for a
\* transport or server failure. An unknown identifier is answered with a
\* status that is not 2xx.
backendHandle(i, up) ==
    /\ i \in 1..Len(apiCalls)
    /\ apiCalls[i].phase = "sent"
    /\ LET c == apiCalls[i]
           known == c.id \in ConvIds /\ backend[c.id] # Absent
           answer(ok, body, list) ==
               [c EXCEPT !.phase = "answered", !.ok = ok, !.body = body, !.list = list]
       IN  CASE ~up ->
                  /\ apiCalls' = [apiCalls EXCEPT ![i] = answer(FALSE, Absent, << >>)]
                  /\ UNCHANGED <<backend, backendCount>>
             [] up /\ c.kind = "getAll" ->
                  /\ apiCalls' = [apiCalls EXCEPT ![i] = answer(TRUE, Absent, BackendList)]
                  /\ UNCHANGED <<backend, backendCount>>
             [] up /\ c.kind = "create" ->
                  IF backendCount < MaxConvs
                    THEN LET made == Conversation(backendCount + 1, c.title)
                         IN  /\ backend' = [backend EXCEPT ![backendCount + 1] = made]
                             /\ backendCount' = backendCount + 1
                             /\ apiCalls' = [apiCalls EXCEPT ![i] = answer(TRUE, made, << >>)]
                    ELSE /\ apiCalls' = [apiCalls EXCEPT ![i] = answer(FALSE, Absent, << >>)]
                         /\ UNCHANGED <<backend, backendCount>>
             [] up /\ c.kind = "update" ->
                  IF known
                    THEN LET made == Conversation(c.id, c.title)
                         IN  /\ backend' = [backend EXCEPT ![c.id] = made]
                             /\ apiCalls' = [apiCalls EXCEPT ![i] = answer(TRUE, made, << >>)]
                             /\ UNCHANGED backendCount
                    ELSE /\ apiCalls' = [apiCalls EXCEPT ![i] = answer(FALSE, Absent, << >>)]
                         /\ UNCHANGED <<backend, backendCount>>
             [] up /\ c.kind = "delete" ->
                  IF known
                    THEN /\ backend' = [backend EXCEPT ![c.id] = Absent]
                         /\ apiCalls' = [apiCalls EXCEPT ![i] = answer(TRUE, Absent, << >>)]
                         /\ UNCHANGED backendCount
                    ELSE /\ apiCalls' = [apiCalls EXCEPT ![i] = answer(FALSE, Absent, << >>)]
                         /\ UNCHANGED <<backend, backendCount>>
    /\ UNCHANGED <<conversations, storeIsLoading, initialized, delivered, apiOps>>
    /\ UNCHANGED <<chatVars, histVars, fnVars>>

\* the response handling with the store changed before the status is looked at
svcResponse_IgnoresStatus(i) ==
    /\ i \in 1..Len(apiCalls)
    /\ apiCalls[i].phase = "answered"
    /\ apiCalls' = RemoveAt(apiCalls, i)
    /\ LET c == apiCalls[i]
       IN  /\ delivered' = [kind |-> c.kind, id |-> c.id, ok |-> c.ok]
           /\ CASE c.kind = "getAll" ->
                     /\ conversations' = IF c.ok THEN c.list ELSE conversations
                     /\ initialized' = IF c.ok THEN TRUE ELSE initialized
                     /\ storeIsLoading' = FALSE
                [] c.kind \in {"create", "update"} ->
                     /\ conversations' = IF c.ok
                                            THEN storeUpdateConversation(conversations, c.body)
                                            ELSE conversations
                     /\ UNCHANGED <<initialized, storeIsLoading>>
                [] c.kind = "delete" ->
                     /\ conversations' = storeRemoveConversation(conversations, c.id)
                     /\ UNCHANGED <<initialized, storeIsLoading>>
    /\ UNCHANGED <<backend, backendCount, apiOps>>
    /\ UNCHANGED <<chatVars, histVars, fnVars>>

\* A response arrives: the .then of fetch throws on a status that is not
\* 2xx, tap changes the store on success only, catchError hands the error to
\* the caller; for getAllConversations the caller is loadConversations.
svcResponse(i) ==
    /\ i \in 1..Len(apiCalls)
    /\ apiCalls[i].phase = "answered"
    /\ apiCalls' = RemoveAt(apiCalls, i)
    /\ LET c == apiCalls[i]
       IN  /\ delivered' = [kind |-> c.kind, id |-> c.id, ok |-> c.ok]
           /\ CASE c.kind = "getAll" ->
                     /\ conversations' = IF c.ok THEN c.list ELSE conversations
                     /\ initialized' = IF c.ok THEN TRUE ELSE initialized
                     /\ storeIsLoading' = FALSE
                [] c.kind \in {"create", "update"} ->
                     /\ conversations' = IF c.ok
                                            THEN storeUpdateConversation(conversations, c.body)
                                            ELSE conversations
                     /\ UNCHANGED <<initialized, storeIsLoading>>
                [] c.kind = "delete" ->
                     /\ conversations' = IF c.ok
                                            THEN storeRemoveConversation(conversations, c.id)
                                            ELSE conversations
                     /\ UNCHANGED <<initialized, storeIsLoading>>
    /\ UNCHANGED <<backend, backendCount, apiOps>>
    /\ UNCHANGED <<chatVars, histVars, fnVars>>

NextStore ==
    \/ loadConversations
    \/ \E t \in StoreTitles : svcCreateConversation(t)
    \/ \E id \in ConvIds, t \in StoreTitles : svcUpdateConversation(id, t)
    \/ \E id \in ConvIds : svcDeleteConversation(id)
    \/ \E i \in 1..MaxInFlight, up \in BOOLEAN : backendHandle(i, up)
    \/ \E i \in 1..MaxInFlight : svcResponse(i)

InitStoreOnly == ChatIdle /\ InitHist /\ InitEnv

SpecStore == InitStoreOnly /\ [][NextStore]_vars

\* ------------------------------------------- useChatWithHistory handlers
\* handleSendMessage: with a non-blank input and the loading flag false, the
\* user message is appended and sendMessage is started; otherwise the
\* handler returns without doing anything.
handleSendMessage(content) ==
    /\ resolved = {}
    /\ Trim(content) # EmptyText
    /\ ~isLoading
    /\ addUserMessageBody(content)
    /\ SendMessageBody
    /\ UNCHANGED envVars

\* The rest of handleSendMessage, run when the promise of sendMessage has
\* settled: a non-empty response is appended as an assistant message.
handleSendContinuation ==
    \E r \in resolved :
        /\ resolved' = resolved \ {r}
        /\ chatOp' = "continuation"
        /\ chatReturn' = EmptyText
        /\ UNCHANGED <<draft, isLoading, currentStreamingMessage, abortController,
                       aborted, sessions, nextSession>>
        /\ IF r.value # EmptyText
             THEN addAssistantMessageBody(r.value)
             ELSE UNCHANGED histVars
        /\ UNCHANGED envVars

\* handleCancelStream: a non-empty result of cancelStream is appended as an
\* assistant message.
handleCancelStream ==
    /\ resolved = {}
    /\ CancelStreamBody
    /\ IF abortController # NoController
         THEN addAssistantMessageBody(currentStreamingMessage \o InterruptedMarker)
         ELSE UNCHANGED histVars
    /\ UNCHANGED envVars

\* The hook: the Stream Coordinator and the ChatHistoryService together. A
\* settled promise runs its continuation before any other event.
NextUI ==
    \/ \E c \in ValidUserContents : handleSendMessage(c)
    \/ handleSendContinuation
    \/ handleCancelStream
    \/ \E s \in SessionIds : resolved = {} /\ StreamOpen(s)
    \/ \E s \in SessionIds, c \in ChunkContents : resolved = {} /\ StreamChunk(s, c)
    \/ \E s \in SessionIds : resolved = {} /\ StreamEnd(s)
    \/ \E s \in SessionIds : resolved = {} /\ StreamError(s)
    \/ \E s \in SessionIds : resolved = {} /\ AbortObserved(s)
    \/ \E i \in 1..MaxInFlight, ok \in BOOLEAN : resolved = {} /\ createDone(i, ok)
    \/ resolved = {} /\ debounceTick
    \/ resolved = {} /\ debounceFire
    \/ \E i \in 1..MaxInFlight, ok \in BOOLEAN : resolved = {} /\ updateDone(i, ok)
    \/ \E i \in 1..MaxInFlight, raw \in TitleOutcomes : resolved = {} /\ titleGenDone(i, raw)

InitUI == InitChat /\ InitHist /\ InitEnv

SpecUI == InitUI /\ [][NextUI]_vars

\* ------------------------------------------------------------------ claims
\* No call of any kind is in flight and the debounce timer is not running.
Quiescent ==
    /\ creates = << >>
    /\ updates = << >>
    /\ loads = << >>
    /\ titleGens = << >>
    /\ ~timer.armed

\* C1: after the first exchange of a new conversation, with the create call
\* and the title generation both successful and no further user action, the
\* record of the assigned identifier ends up with the generated title.
C1_TitleReconciled ==
    (pristine /\ Quiescent /\ conversationId # NoId /\ titleGenerated)
        => server[conversationId].title = title

\* C2: at most one create call is in flight per conversation.
C2_CreateOnce ==
    \A i, j \in 1..Len(creates) : creates[i].conv = creates[j].conv => i = j

\* The step in which the debounce timer expires and runs its function: the
\* only step that leaves the timer idle.
TimerRan == timer.armed /\ ~timer'.armed

\* The step in which a create call completes.
CreateCompleted == Len(creates') < Len(creates)

\* The step in which addAssistantMessage appends its message.
AssistantAppended ==
    /\ loads' = loads
    /\ Len(messages') = Len(messages) + 1
    /\ messages'[Len(messages')].role = RoleAssistant

DebouncedCount(us) == Cardinality({i \in 1..Len(us) : us[i].origin = "debounced"})

\* C3: a burst of debouncedSave calls, each less than the wait time after the
\* previous one, with no update in flight, produces exactly one update call,
\* issued when the timer expires and carrying the id, title and messages of
\* the last call of the burst.
C3_DebounceCoalesces ==
    [][ /\ (TimerRan /\ updates = << >>)
            => updates' = <<[req |-> lastSched, origin |-> "debounced"]>>
        /\ (~TimerRan)
            => DebouncedCount(updates') <= DebouncedCount(updates) ]_vars

C3_Witness ==
    /\ ~timer.armed
    /\ burst >= 3
    /\ updates = <<[req |-> lastSched, origin |-> "debounced"]>>
    /\ lastSched.hasTitle

\* C4: at most one stream session is live (created, not aborted, not ended).
C4_AtMostOneLiveSession ==
    Cardinality({s \in SessionIds : Live(s)}) <= 1

C6_OneUpdateInFlight ==
    \A i, j \in 1..Len(updates) : updates[i].req.id = updates[j].req.id => i = j

\* C7: a payload scheduled while an update was in flight is not lost: once
\* the timer has run and no update is in flight, it has been sent.
C7_AbsorbedPayloadIsSent ==
    (~timer.armed /\ updates = << >>) => ~unsent

\* C8: every update call carries the conversationId of the moment it is sent.
C8_NoStaleIdentifier ==
    [][ Len(updates') > Len(updates)
          => updates'[Len(updates')].req.id = conversationId' ]_vars

\* C9: conversationId goes from an identifier to null only in the reset
\* setConversationId(null), which in the same step empties the messages,
\* sets the default title and clears titleGenerated and awaitingTitleUpdate.
C9_IdNullOnlyOnReset ==
    [][ (conversationId # NoId /\ conversationId' = NoId) =>
          \* the step is a user operation, not the completion of a call
          /\ userOps' = userOps + 1
          /\ UNCHANGED <<creates, updates, loads, titleGens>>
          /\ messages' = << >>
          /\ title' = NewConversationTitle
          /\ titleGenerated' = FALSE
          /\ awaitingTitleUpdate' = FALSE ]_vars

\* an identifier had been assigned (only a successful create call raises
\* serverCount, and it sets conversationId) and the conversation is reset
C9_Witness ==
    /\ serverCount >= 1
    /\ conversationId = NoId
    /\ messages = << >>
    /\ title = NewConversationTitle
    /\ ~titleGenerated
    /\ ~awaitingTitleUpdate

\* C10: per conversation at most one automatic update carries a title.
C10_TitleAssertedOnce ==
    \A id \in ConvIds : autoTitled[id] <= 1

\* C11: title generation is started at most once per conversation, that is
\* between two resets.
C11_TitleGenerationOnce ==
    titleStarts <= 1

\* C12: a failed create call leaves conversationId as it was; the next
\* addAssistantMessage of that conversation, still without identifier, issues
\* a new create call with the full history of that moment and the latest
\* accumulated title: the generated title once there is one, the title
\* extracted from the first user message before.
C12_RetryUsesLatestState ==
    [][ /\ (CreateCompleted /\ serverCount' = serverCount)
            => conversationId' = conversationId
        /\ ( /\ "create" \in failures
             /\ conversationId = NoId
             /\ AssistantAppended )
            => /\ Len(creates') = Len(creates) + 1
               /\ creates'[Len(creates')].messages = messages'
               /\ creates'[Len(creates')].title =
                     IF titleGenerated THEN title
                     ELSE extractTitle(messages'[FirstUser(messages')].content) ]_vars

\* C13: when the create call of a new conversation assigns the identifier,
\* the messages appended in the meantime are persisted: the created record
\* holds the whole history, or an update carrying it is scheduled or in
\* flight at that moment.
C13_EarlyMessagesPersisted ==
    [][ ( /\ CreateCompleted
          /\ conversationId = NoId
          /\ conversationId' # NoId
          /\ \A i \in 1..Len(creates) : creates[i].conv = epoch )
        => \/ server'[conversationId'].messages = messages'
           \/ /\ timer'.armed
              /\ timer'.req.id = conversationId'
              /\ timer'.req.messages = messages'
           \/ \E k \in 1..Len(updates') :
                 /\ updates'[k].req.id = conversationId'
                 /\ updates'[k].req.messages = messages' ]_vars

\* C14: a send that is cancelled resolves to the empty string, never to the
\* partial text or to the error fallback.
C14_CancelledSendResolvesEmpty ==
    \A r \in resolved : r.how = "cancelled" => r.value = EmptyText

\* C15: a request or stream failure that is not a cancellation resolves the
\* send with the fixed error text, and in the same step the loading flag is
\* false, the partial text is empty and no cancellation token remains.
C15_FailureYieldsFallback ==
    [][ (chatOp' = "streamError") =>
          /\ \E s \in SessionIds :
                /\ Live(s)
                /\ resolved' = {Resolution(s, "failed", ErrorFallbackText)}
          /\ isLoading' = FALSE
          /\ currentStreamingMessage' = EmptyText
          /\ abortController' = NoController ]_vars

\* a send has failed and the coordinator is idle again
C15_Witness ==
    /\ chatOp = "streamError"
    /\ \E r \in resolved : r.how = "failed" /\ r.value = ErrorFallbackText
    /\ isLoading = FALSE
    /\ currentStreamingMessage = EmptyText
    /\ abortController = NoController

\* C16: every send that streams ends as completed, cancelled or failed and
\* leaves the coordinator idle; while a session is streaming (created, not
\* aborted, not ended) the loading flag is true.
C16_LoadingWhileStreaming ==
    (\E s \in SessionIds : Live(s)) => isLoading

\* C17: sendMessage called while the loading flag is true resolves to the
\* empty string at once, issues no request and leaves the loading flag, the
\* partial text and the cancellation token as they are.
C17_RefusedWhileLoading ==
    [][ (chatOp' = "sendMessage" /\ isLoading) =>
          /\ resolved' = {Resolution(0, "refused", EmptyText)}
          /\ UNCHANGED <<isLoading, currentStreamingMessage, abortController,
                         aborted, sessions, nextSession>> ]_vars

\* a send was refused while a session held the token and had shown a chunk
C17_Witness ==
    /\ chatOp = "sendMessage"
    /\ resolved = {Resolution(0, "refused", EmptyText)}
    /\ isLoading
    /\ abortController # NoController
    /\ currentStreamingMessage = <<"H">>

\* C18: isSaving is true exactly when savingStates is not empty, in every
\* state, the one right after a reset included.
C18_IsSavingIffTags ==
    isSaving <=> (savingStates # {})

\* C19: isSaving is true whenever a load, create, update or title-generation
\* call is in flight.
C19_IsSavingWhileInFlight ==
    (creates # << >> \/ updates # << >> \/ loads # << >> \/ titleGens # << >>)
        => isSaving

\* C20: when a debounced update call completes, failed or not, pendingSave
\* is false and the 'conversation-update' tag is gone; the next time the
\* debounce timer runs after a failure, with no update pending, a new update
\* call is issued with the scheduled arguments.
C20_FailedUpdateFreesSaving ==
    [][ /\ (\E i \in 1..Len(updates) :
                updates' = RemoveAt(updates, i) /\ updates[i].origin = "debounced")
            => /\ pendingSave' = FALSE
               /\ "conversation-update" \notin savingStates'
        /\ ("update" \in failures /\ TimerRan /\ ~pendingSave)
            => updates' = Append(updates, [req |-> timer.req, origin |-> "debounced"]) ]_vars

\* after a failed update, the next expiry of the timer has issued an update
C20_Witness ==
    /\ "update" \in failures
    /\ ~timer.armed
    /\ pendingSave
    /\ \E k \in 1..Len(updates) :
          updates[k] = [req |-> lastSched, origin |-> "debounced"]

\* C21: no create or update request carries the placeholder title, and no
\* stored record has it.
C21_PlaceholderNeverSent ==
    /\ \A i \in 1..Len(creates) : creates[i].title # PlaceholderTitle
    /\ \A i \in 1..Len(updates) :
          updates[i].req.hasTitle => updates[i].req.title # PlaceholderTitle
    /\ \A id \in ConvIds : server[id].title # PlaceholderTitle

\* C22: when the only title generation of a conversation has failed and the
\* first user message is longer than 30 characters, the title persisted for
\* the conversation is the first 30 characters of that message, trimmed,
\* followed by '...'.
C22_FallbackTitleFromUserMessage ==
    ( /\ "title" \in failures
      /\ titleStarts = 1
      /\ conversationId # NoId
      /\ Quiescent
      /\ FirstUser(messages) # 0
      /\ Len(messages[FirstUser(messages)].content) > ExtractLen )
    => server[conversationId].title =
         Trim(Take(messages[FirstUser(messages)].content, ExtractLen)) \o Ellipsis

ExplicitCount(cs) == Cardinality({i \in 1..Len(cs) : cs[i].origin = "explicit"})

\* C23: saveConversation called with an empty message list is refused: it
\* issues no create or update call and leaves conversationId, messages,
\* title and the saving tags as they are; no step issues an explicit save
\* of an empty message list.
C23_EmptySaveRefused ==
    [][ /\ (rejected' = "save") =>
              /\ Len(messages) = 0
              /\ UNCHANGED <<creates, updates, conversationId, messages, title,
                             savingStates, isSaving>>
        /\ (Len(messages) = 0) =>
              /\ ExplicitCount(creates') <= ExplicitCount(creates)
              /\ ExplicitCount(updates') <= ExplicitCount(updates) ]_vars

\* an empty save was refused in a conversation that has an identifier
C23_Witness ==
    /\ rejected = "save"
    /\ messages = << >>
    /\ conversationId # NoId
    /\ creates = << >>
    /\ updates = << >>

\* C24: when a cancelled send finishes after a newer send has started, the
\* newer session keeps its loading flag, its partial text and its
\* cancellation token.
C24_LateCleanupSparesNewSession ==
    [][ ( /\ chatOp' = "abortObserved"
          /\ abortController # NoController
          /\ abortController \notin aborted )
        => UNCHANGED <<isLoading, currentStreamingMessage, abortController>> ]_vars

RoleCount(ms, role) == Cardinality({i \in 1..Len(ms) : ms[i].role = role})

\* C25: every handleSendMessage call appends at most one assistant message:
\* the history never holds more assistant messages than user messages.
C25_OneAssistantMessagePerSend ==
    RoleCount(messages, RoleAssistant) <= RoleCount(messages, RoleUser)

\* C26: the completion of a create call issued for a conversation that has
\* been replaced since (reset) leaves the identifier of the current
\* conversation alone.
C26_LateCreateSparesNewConversation ==
    [][ \A i \in 1..Len(creates) :
          (creates' = RemoveAt(creates, i) /\ creates[i].conv # epoch)
            => conversationId' = conversationId ]_vars

\* C27: the completion of a title generation started for a conversation that
\* has been replaced since changes none of title, titleGenerated and
\* awaitingTitleUpdate and schedules no update.
C27_LateTitleSparesOtherConversation ==
    [][ \A i \in 1..Len(titleGens) :
          (titleGens' = RemoveAt(titleGens, i) /\ titleGens[i].conv # epoch)
            => UNCHANGED <<title, titleGenerated, awaitingTitleUpdate, timer,
                           lastSched, unsent>> ]_vars

\* The step in which addUserMessage appends its message and schedules it.
UserMessageScheduled ==
    /\ loads' = loads
    /\ Len(messages') = Len(messages) + 1
    /\ messages'[Len(messages')].role = RoleUser
    /\ conversationId # NoId

\* C28: when an update carrying a title is waiting in the debounce window and
\* a user message schedules an update without title for the same
\* conversation, the one update that will be sent carries the latest
\* messages and still the waiting title.
C28_MergeKeepsPendingTitle ==
    [][ ( /\ timer.armed
          /\ timer.elapsed < DebounceWait
          /\ timer.req.hasTitle
          /\ timer.req.id = conversationId
          /\ UserMessageScheduled )
        => /\ timer'.armed
           /\ timer'.req.id = conversationId
           /\ timer'.req.messages = messages'
           /\ timer'.req.hasTitle
           /\ timer'.req.title = timer.req.title ]_vars

\* C29: while a generated title obtained without identifier has not been
\* sent (titleGenerated and awaitingTitleUpdate both true), the next create
\* or update call the service issues on its own for the conversation carries
\* that title.
C29_LocalTitleCarriedByNextCall ==
    [][ ( /\ titleGenerated
          /\ awaitingTitleUpdate
          /\ title # PlaceholderTitle )
        => /\ ( /\ Len(creates') > Len(creates)
                /\ creates'[Len(creates')].origin = "auto" )
              => creates'[Len(creates')].title = title
           /\ ( /\ Len(updates') > Len(updates)
                /\ updates'[Len(updates')].origin = "debounced"
                /\ updates'[Len(updates')].req.id = conversationId )
              => /\ updates'[Len(updates')].req.hasTitle
                 /\ updates'[Len(updates')].req.title = title ]_vars

\* C30: awaitingTitleUpdate goes from true to false only in a reset, in a
\* step that sends an update carrying the generated title for a conversation
\* with identifier, or when a failed title generation has fallen back to the
\* extracted title.
C30_AwaitingClearedOnlyWhenSent ==
    [][ (awaitingTitleUpdate /\ ~awaitingTitleUpdate') =>
          \/ /\ userOps' = userOps + 1
             /\ UNCHANGED <<creates, updates, loads, titleGens>>
             /\ conversationId' = NoId
             /\ messages' = << >>
          \/ /\ conversationId # NoId
             /\ titleGenerated'
             /\ Len(updates') > Len(updates)
             /\ updates'[Len(updates')].req.hasTitle
             /\ updates'[Len(updates')].req.title = title'
          \/ \E i \in 1..Len(titleGens) :
                /\ titleGens' = RemoveAt(titleGens, i)
                /\ title' = generateTitleResult(titleGens[i].content, TitleRequestFailed) ]_vars

\* C31: the completion of one title generation calls debouncedSave at most
\* once: with an identifier and awaitingTitleUpdate true it schedules one
\* update carrying the title and clears the flag in the same step; otherwise
\* it schedules nothing and leaves the flag alone.
C31_OneReconcilingSchedule ==
    [][ \A i \in 1..Len(titleGens) :
          titleGens' = RemoveAt(titleGens, i) =>
            /\ \/ burst' = burst
               \/ burst' = (IF timer.armed /\ timer.elapsed < DebounceWait
                              THEN Min(burst + 1, MaxBurst) ELSE 1)
            /\ (conversationId # NoId /\ awaitingTitleUpdate)
                  => /\ ~awaitingTitleUpdate'
                     /\ timer' = debounce(SaveRequest(conversationId, TRUE, title', messages))
                     /\ lastSched' = timer'.req
            /\ ~(conversationId # NoId /\ awaitingTitleUpdate)
                  => UNCHANGED <<timer, awaitingTitleUpdate, lastSched, burst>> ]_vars

\* the title generation has completed on a conversation with identifier and
\* its one update, the first call of its debounce window, is scheduled
C31_Witness ==
    /\ titleGenerated
    /\ ~awaitingTitleUpdate
    /\ conversationId # NoId
    /\ timer.armed
    /\ timer.req = SaveRequest(conversationId, TRUE, title, messages)
    /\ lastSched = timer.req
    /\ burst = 1

\* C32: in the RxJS draft pendingSave is false again once an update call
\* has completed, whether it succeeded or failed.
C32_PendingSaveReleased ==
    [][ Len(updates') < Len(updates) => ~pendingSave' ]_vars

\* C33: the completion of a load that was requested before the current
\* conversation was selected (by a reset or by a later load) leaves the
\* messages and the identifier of the current conversation alone.
C33_LoadsLatestWins ==
    [][ \A i \in 1..Len(loads) :
          (loads' = RemoveAt(loads, i) /\ loads[i].conv # epoch)
            => UNCHANGED <<messages, conversationId>> ]_vars

\* C34: addUserMessage and addAssistantMessage only append: a rejected call
\* leaves the message list as it is, and whenever the list changes, either
\* the old list is a prefix of the new one, which has exactly one message
\* more, or the step is a reset (the list becomes empty) or the completion
\* of a load (the list becomes the loaded one).
C34_MessagesAppendOnly ==
    [][ /\ (rejected' \in {"user", "assistant"}) => messages' = messages
        /\ (messages' # messages) =>
              \/ /\ userOps' = userOps + 1
                 /\ Len(messages') = Len(messages) + 1
                 /\ SubSeq(messages', 1, Len(messages)) = messages
              \/ /\ userOps' = userOps + 1
                 /\ loads' = loads
                 /\ conversationId' = NoId
                 /\ messages' = << >>
              \/ \E i \in 1..Len(loads) :
                    /\ loads' = RemoveAt(loads, i)
                    /\ messages' = server[loads[i].id].messages ]_vars

\* a user message has been appended to a list that was not empty, in a
\* service that has never loaded a conversation
C34_Witness ==
    /\ serverCount = 0
    /\ Len(messages) >= 3
    /\ messages[1].role = RoleUser
    /\ messages[2].role = RoleAssistant
    /\ messages[3].role = RoleUser

\* The step in which the response of a call of ConversationService arrives.
ResponseArrived(c) ==
    \E i \in 1..Len(apiCalls) :
        /\ apiCalls[i] = c
        /\ c.phase = "answered"
        /\ apiCalls' = RemoveAt(apiCalls, i)

\* C35: a conversation that is in the store leaves it only when the
\* response of a successful delete call for its identifier arrives, that is
\* when removeConversation is called for it.
C35_StoredUntilRemoved ==
    [][ \A id \in ConvIds :
          (InStore(conversations, id) /\ ~InStore(conversations', id))
            => \E i \in 1..Len(apiCalls) :
                  /\ ResponseArrived(apiCalls[i])
                  /\ apiCalls[i].kind = "delete"
                  /\ apiCalls[i].id = id ]_vars

\* C36: the store changes only when a successful response arrives: a create
\* or update inserts or replaces the returned conversation and a delete
\* removes the identifier; a failed create, update or delete leaves the
\* store as it is and the caller gets the error.
C36_StoreFollowsSuccess ==
    [][ /\ (conversations' # conversations)
              => \E i \in 1..Len(apiCalls) :
                    ResponseArrived(apiCalls[i]) /\ apiCalls[i].ok
        /\ \A i \in 1..Len(apiCalls) :
              (ResponseArrived(apiCalls[i]) /\ apiCalls[i].kind # "getAll")
                => /\ delivered'.ok = apiCalls[i].ok
                   /\ delivered'.kind = apiCalls[i].kind
                   /\ conversations' =
                        IF ~apiCalls[i].ok THEN conversations
                        ELSE IF apiCalls[i].kind = "delete"
                               THEN storeRemoveConversation(conversations, apiCalls[i].id)
                               ELSE storeUpdateConversation(conversations, apiCalls[i].body) ]_vars

\* the delete of a conversation that is in the store has failed, and the
\* conversation is still there
C36_Witness ==
    /\ delivered.kind = "delete"
    /\ ~delivered.ok
    /\ InStore(conversations, delivered.id)

Subscribed(id, key) == Occurrences(listeners[key], id) > 0

C38_ExtractTitleEllipsis ==
    (titleResult # NotApplied /\ titleResult[1] = "extractTitle") =>
        LET content == titleArg.content
        IN  titleResult[2] =
              IF Trim(content) = EmptyText THEN NewConversationTitle
              ELSE Trim(Take(content, ExtractLen))
                     \o (IF Len(content) > ExtractLen THEN Ellipsis ELSE EmptyText)

\* C39: generateTitle returns a title of 1 to 50 characters; when the title
\* request succeeds, a trimmed answer longer than 50 characters is cut to
\* its first 47 characters plus '...', one of 1 to 50 characters is returned
\* as it is, and an empty one gives 'New Conversation'.
C39_GeneratedTitleBounded ==
    (titleResult # NotApplied /\ titleResult[1] = "generateTitle") =>
        LET derived == Trim(titleArg.raw)
            value == titleResult[2]
        IN  /\ Len(value) >= 1
            /\ Len(value) <= TitleMaxLen
            /\ titleArg.raw # TitleRequestFailed =>
                  value = IF Len(derived) > TitleMaxLen
                            THEN Take(derived, TitleCutLen) \o Ellipsis
                          ELSE IF Len(derived) >= 1 THEN derived
                          ELSE NewConversationTitle

\* an answer longer than 50 characters has been cut to 50
C39_Witness ==
    /\ titleResult # NotApplied
    /\ titleResult[1] = "generateTitle"
    /\ titleArg.raw # TitleRequestFailed
    /\ Len(Trim(titleArg.raw)) > TitleMaxLen
    /\ Len(titleResult[2]) = TitleMaxLen

\* the step appends one user message
UserMessageAccepted ==
    /\ Len(messages') = Len(messages) + 1
    /\ messages'[Len(messages')].role = RoleUser

\* C40: addUserMessage with an empty or whitespace-only content and
\* addAssistantMessage with an empty content change no state and start no
\* store call and no title request; an accepted addUserMessage empties the
\* input buffer in the same step and, while the conversation has no
\* identifier, starts no store call.
C40_RejectedCallsChangeNothing ==
    [][ /\ (rejected' \in {"user", "assistant"}) =>
              /\ UNCHANGED <<messages, input, conversationId, title, savingStates,
                             isSaving, pendingSave, titleGenerated,
                             awaitingTitleUpdate, calls>>
              /\ UNCHANGED <<timer, creates, updates, loads, titleGens>>
        /\ UserMessageAccepted =>
              /\ input' = EmptyText
              /\ (conversationId = NoId) =>
                    UNCHANGED <<timer, creates, updates, loads, titleGens>> ]_vars

\* an empty addAssistantMessage was refused while text was typed, after a
\* user message had emptied the buffer once
C40_Witness ==
    /\ rejected = "assistant"
    /\ input # EmptyText
    /\ Len(messages) >= 1
    /\ conversationId = NoId

====
